---- MODULE Spec2Model ----
(***************************************************************************)
(* FDEP Flood Intelligence dashboard (src/app.py).                         *)
(*                                                                         *)
(* The program is one script that the dashboard runtime executes from top  *)
(* to bottom at session start and again after every user interaction.      *)
(* A state of the model is the state at the end of one execution: the      *)
(* widget values, the session state, and what the execution computed,      *)
(* sent to the remote services and showed.  Every action is one user       *)
(* interaction followed by the complete execution of the script.           *)
(*                                                                         *)
(* Encodings: a date string is the sequence of its characters; a date      *)
(* object is a record [y, m, d]; latitudes and longitudes are in           *)
(* hundredths of a degree; a non-integer number is a record [num, den];    *)
(* an optional value is a sequence of length 0 or 1.                       *)
(***************************************************************************)
EXTENDS Integers, Sequences, FiniteSets, TLC

(* ------------------------------ bounds ------------------------------- *)

\* Longest chat transcript explored.
MaxTranscript == 3

\* Most date widgets holding a user-entered date at the same time.
MaxOverrides == 1

(* --------------------- section 2: the flood archive ------------------- *)

flood_archive ==
  <<
   [year |-> "2024", events |-> <<
      [name |-> "San Diego Flash Floods (Jan)", lat |-> 3271, lon |-> -11716,
       dates |-> << <<"2","0","2","3","-","1","2","-","0","1">>,
              <<"2","0","2","4","-","0","1","-","1","5">>,
              <<"2","0","2","4","-","0","1","-","2","2">>,
              <<"2","0","2","4","-","0","1","-","3","0">> >>],
      [name |-> "Houston Floods (May)", lat |-> 2976, lon |-> -9536,
       dates |-> << <<"2","0","2","4","-","0","4","-","0","1">>,
              <<"2","0","2","4","-","0","4","-","1","5">>,
              <<"2","0","2","4","-","0","5","-","0","2">>,
              <<"2","0","2","4","-","0","5","-","1","0">> >>] >>],
   [year |-> "2023", events |-> <<
      [name |-> "Fort Lauderdale Flash Flood (Apr)", lat |-> 2612, lon |-> -8014,
       dates |-> << <<"2","0","2","3","-","0","3","-","0","1">>,
              <<"2","0","2","3","-","0","4","-","0","1">>,
              <<"2","0","2","3","-","0","4","-","1","3">>,
              <<"2","0","2","3","-","0","4","-","2","0">> >>],
      [name |-> "Vermont Floods (Jul)", lat |-> 4426, lon |-> -7257,
       dates |-> << <<"2","0","2","3","-","0","6","-","0","1">>,
              <<"2","0","2","3","-","0","7","-","0","1">>,
              <<"2","0","2","3","-","0","7","-","1","1">>,
              <<"2","0","2","3","-","0","7","-","2","0">> >>],
      [name |-> "Libya Dam Collapse (Sep)", lat |-> 3276, lon |-> 2263,
       dates |-> << <<"2","0","2","3","-","0","8","-","0","1">>,
              <<"2","0","2","3","-","0","9","-","0","1">>,
              <<"2","0","2","3","-","0","9","-","1","2">>,
              <<"2","0","2","3","-","0","9","-","2","0">> >>] >>],
   [year |-> "2022", events |-> <<
      [name |-> "Hurricane Ian (Florida)", lat |-> 2664, lon |-> -8187,
       dates |-> << <<"2","0","2","2","-","0","9","-","0","1">>,
              <<"2","0","2","2","-","0","9","-","1","5">>,
              <<"2","0","2","2","-","0","9","-","2","9">>,
              <<"2","0","2","2","-","1","0","-","0","5">> >>],
      [name |-> "Pakistan Floods (Sindh)", lat |-> 2690, lon |-> 6810,
       dates |-> << <<"2","0","2","2","-","0","8","-","0","1">>,
              <<"2","0","2","2","-","0","8","-","1","0">>,
              <<"2","0","2","2","-","0","8","-","2","0">>,
              <<"2","0","2","2","-","0","8","-","3","0">> >>],
      [name |-> "Yellowstone Floods (Jun)", lat |-> 4503, lon |-> -11070,
       dates |-> << <<"2","0","2","2","-","0","5","-","0","1">>,
              <<"2","0","2","2","-","0","6","-","0","1">>,
              <<"2","0","2","2","-","0","6","-","1","3">>,
              <<"2","0","2","2","-","0","6","-","2","5">> >>] >>],
   [year |-> "2021", events |-> <<
      [name |-> "Hurricane Ida (Louisiana)", lat |-> 2959, lon |-> -9071,
       dates |-> << <<"2","0","2","1","-","0","8","-","0","1">>,
              <<"2","0","2","1","-","0","8","-","2","0">>,
              <<"2","0","2","1","-","0","8","-","3","0">>,
              <<"2","0","2","1","-","0","9","-","1","0">> >>],
      [name |-> "Germany/Belgium Floods", lat |-> 5047, lon |-> 685,
       dates |-> << <<"2","0","2","1","-","0","6","-","0","1">>,
              <<"2","0","2","1","-","0","7","-","1","0">>,
              <<"2","0","2","1","-","0","7","-","1","5">>,
              <<"2","0","2","1","-","0","7","-","2","5">> >>] >>],
   [year |-> "2020", events |-> <<
      [name |-> "Hurricane Sally (Pensacola)", lat |-> 3042, lon |-> -8721,
       dates |-> << <<"2","0","2","0","-","0","8","-","1","5">>,
              <<"2","0","2","0","-","0","9","-","1","0">>,
              <<"2","0","2","0","-","0","9","-","1","7">>,
              <<"2","0","2","0","-","0","9","-","2","5">> >>],
      [name |-> "Midland Dam Failure (Michigan)", lat |-> 4361, lon |-> -8422,
       dates |-> << <<"2","0","2","0","-","0","5","-","0","1">>,
              <<"2","0","2","0","-","0","5","-","1","5">>,
              <<"2","0","2","0","-","0","5","-","2","0">>,
              <<"2","0","2","0","-","0","5","-","3","0">> >>] >>]
  >>

\* list(flood_archive.keys())
year_list == [i \in 1..Len(flood_archive) |-> flood_archive[i].year]

YearEntry(year) ==
  CHOOSE e \in {flood_archive[i] : i \in 1..Len(flood_archive)} : e.year = year

\* list(flood_archive[selected_year].keys())
event_list(year) ==
  LET evs == YearEntry(year).events
  IN  [i \in 1..Len(evs) |-> evs[i].name]

\* flood_archive[selected_year][selected_event_name]
Params(year, event) ==
  LET evs == YearEntry(year).events
  IN  CHOOSE p \in {evs[i] : i \in 1..Len(evs)} : p.name = event

(* ------------------------- date conversions --------------------------- *)

DigitValue(c) ==
  CASE c = "0" -> 0 [] c = "1" -> 1 [] c = "2" -> 2 [] c = "3" -> 3
    [] c = "4" -> 4 [] c = "5" -> 5 [] c = "6" -> 6 [] c = "7" -> 7
    [] c = "8" -> 8 [] c = "9" -> 9

DigitChar(n) ==
  <<"0", "1", "2", "3", "4", "5", "6", "7", "8", "9">>[n + 1]

RECURSIVE Number(_)
Number(s) ==
  IF s = <<>> THEN 0
  ELSE 10 * Number(SubSeq(s, 1, Len(s) - 1)) + DigitValue(s[Len(s)])

\* The decimal digits of n, zero-padded on the left to the given width.
RECURSIVE Padded(_, _)
Padded(n, width) ==
  IF width = 0 THEN <<>>
  ELSE Append(Padded(n \div 10, width - 1), DigitChar(n % 10))

\* pd.to_datetime(x).date() on a "YYYY-MM-DD" string
to_date(x) ==
  [y |-> Number(SubSeq(x, 1, 4)),
   m |-> Number(SubSeq(x, 6, 7)),
   d |-> Number(SubSeq(x, 9, 10))]

\* The decimal digits of n with no padding.
RECURSIVE Digits(_)
Digits(n) ==
  IF n < 10 THEN <<DigitChar(n)>> ELSE Append(Digits(n \div 10), DigitChar(n % 10))

\* Variant of dstr: the month and the day are not zero-padded.
dstr_unpadded(date) ==
  Padded(date.y, 4) \o <<"-">> \o Digits(date.m) \o <<"-">> \o Digits(date.d)

\* d.strftime("%Y-%m-%d")
dstr(date) ==
  Padded(date.y, 4) \o <<"-">> \o Padded(date.m, 2) \o <<"-">> \o Padded(date.d, 2)

\* d = [pd.to_datetime(x).date() for x in params["dates"]]
DefaultDates(year, event) ==
  LET params == Params(year, event)
  IN  [i \in 1..4 |-> to_date(params.dates[i])]

\* Order of two date objects.
DateBefore(a, b) ==
  \/ a.y < b.y
  \/ a.y = b.y /\ a.m < b.m
  \/ a.y = b.y /\ a.m = b.m /\ a.d < b.d

(* ----------------------------- user inputs ---------------------------- *)

\* Dates a user picks in a date widget (none of them is a configured date).
CustomDates == {[y |-> 2024, m |-> 6, d |-> 15]}

\* Text a user types into "Location Name".
CustomLocations == {"Miami"}

\* Text a user types into the chat input.
Prompts == {"How large is the flood?", "Which roads are closed?"}

SensorChoices == <<"Sentinel-1 (Radar)", "Sentinel-2 (Optical)">>

(* ------------------------ remote-service outcomes --------------------- *)

\* Text the chat endpoint returns.
Replies == {"reply"}

\* Sums (square metres) the region reduction returns for band VV.
AreaValues == {0, 25000}

\* getInfo() either raises, or returns a dictionary that has no 'VV' entry,
\* a null 'VV' entry, or a number.
GetInfoOutcomes ==
  {[raises |-> TRUE, has_VV |-> FALSE, VV |-> <<>>],
   [raises |-> FALSE, has_VV |-> FALSE, VV |-> <<>>],
   [raises |-> FALSE, has_VV |-> TRUE, VV |-> <<>>]}
  \cup {[raises |-> FALSE, has_VV |-> TRUE, VV |-> <<v>>] : v \in AreaValues}

NoInfo == [raises |-> FALSE, has_VV |-> FALSE, VV |-> <<>>]

\* The chat call returns a reply, raises, or returns no choice at all.
ChatOutcomes ==
  {[kind |-> "reply", text |-> r] : r \in Replies}
  \cup {[kind |-> "error", text |-> ""], [kind |-> "empty", text |-> ""]}

NoChat == [kind |-> "error", text |-> ""]

(* ------------------------------- state -------------------------------- *)

VARIABLES
  \* widget values
  selected_year, selected_event_name, location_query,
  before_start, before_end, after_start, after_end,
  overridden,          \* the date widgets (1..4) that hold a user-entered date
  sensor_type, show_fdep,
  \* st.session_state
  analysis_active, messages,
  \* the last execution of the script
  trigger,             \* "load", "button", "widget" or "chat"
  lat, lon,
  roi,                 \* optional: the region sent to the satellite service
  filter_dates,        \* the four filterDate arguments, or <<>>
  detect,              \* optional: the flood-detection expression
  sat_calls,           \* the satellite-service requests issued, in order
  area,                \* optional: what getInfo() returned
  flooded_ha,          \* optional: the script variable when the execution ended
  ui,                  \* what the execution showed
  run_end,             \* "inactive", "completed" or "aborted"
  failed,              \* the remote calls that failed
  request              \* the messages sent to the chat endpoint, or <<>>

widget_vars ==
  <<selected_year, selected_event_name, location_query, before_start,
    before_end, after_start, after_end, overridden, sensor_type, show_fdep>>

session_vars == <<analysis_active, messages>>

run_vars ==
  <<trigger, lat, lon, roi, filter_dates, detect, sat_calls, area, flooded_ha,
    ui, run_end, failed, request>>

vars == <<widget_vars, session_vars, run_vars>>

(* ----------------------- the script, by section ----------------------- *)

Number1(n) == [num |-> n, den |-> 1]

\* Python's x / k
Divide(x, k) == [num |-> x.num, den |-> x.den * k]

\* The dashboard runtime identifies a widget by its arguments: a widget whose
\* default (or option list) differs from the previous execution's is a new
\* widget and shows its default; otherwise it keeps the value it holds.
WidgetValue(default, old_default, old_value) ==
  IF default = old_default THEN old_value ELSE default

\* selectbox("Select Major Event", event_list): a new option list selects its first entry
EventSelectbox(year, old_year, old_event) ==
  IF year = old_year THEN old_event ELSE event_list(year)[1]

\* Variant of Latch: the flag follows the button instead of latching.
Latch_unlatched(active, pressed) == pressed

\* if 'analysis_active' not in st.session_state ... if st.sidebar.button(...)
Latch(active, pressed) == active \/ pressed

\* if st.session_state.analysis_active:
DashboardRuns(active) == active

\* roi = ee.Geometry.Point([lon, lat]).buffer(20000)
Roi(lon_, lat_) == [lon |-> lon_, lat |-> lat_, buffer |-> 20000]

\* if show_fdep: try: m.add_esri_layer(...); st.toast(...) except: st.warning(...)
FdepNotices(show, ok) ==
  IF ~show THEN {} ELSE IF ok THEN {"fdep_toast"} ELSE {"fdep_warning"}

\* Variant of FilterDates: the two windows are exchanged.
FilterDates_swapped(bs, be, as, ae) == <<dstr(as), dstr(ae), dstr(bs), dstr(be)>>

\* collection.filterDate(dstr(before_start), dstr(before_end)) and
\* collection.filterDate(dstr(after_start), dstr(after_end))
FilterDates(bs, be, as, ae) == <<dstr(bs), dstr(be), dstr(as), dstr(ae)>>

\* image.focal_mean(radius): kernelType and units are not passed, so the
\* service applies its defaults, a circle measured in pixels
focal_mean(image, radius) ==
  [image |-> image, radius |-> radius, kernelType |-> "circle", units |-> "pixels"]

\* diff = after.focal_mean(50).divide(before.focal_mean(50))
\* flood_mask = diff.select('VV').lt(0.8)
\* flood_final = flood_mask.updateMask(before.select('VV').gt(-15)).selfMask()
DetectFlood ==
  [numerator   |-> focal_mean("after", 50),
   denominator |-> focal_mean("before", 50),
   band        |-> "VV",
   lt          |-> [num |-> 8, den |-> 10],
   mask_image  |-> "before",
   mask_band   |-> "VV",
   mask_gt     |-> -15]

RadarLayers ==
  <<"add_layer:Before Storm", "add_layer:After Storm", "add_layer:FLOOD DETECTED">>

OpticalLayers == <<"add_layer:Before (Optical)", "add_layer:After (Optical)">>

\* Variant of SatelliteCalls: the optical branch sends nothing.
SatelliteCalls_radar_only(radar, aborted) ==
  IF ~radar THEN <<>>
  ELSE IF aborted THEN RadarLayers \o <<"getInfo">>
  ELSE RadarLayers \o <<"getInfo", "getDownloadURL">>

\* The requests the satellite section sends: the map layers, then (radar only)
\* the region reduction and, unless that stopped the script, the download URL.
SatelliteCalls(radar, aborted) ==
  IF ~radar THEN OpticalLayers
  ELSE IF aborted THEN RadarLayers \o <<"getInfo">>
  ELSE RadarLayers \o <<"getInfo", "getDownloadURL">>

\* Variant of AreaGet: area.get('VV'), with no default.
AreaGet_no_default(info) == info.VV

\* area.get('VV', 0): an optional number, empty for a null entry
AreaGet(info) == IF info.has_VV THEN info.VV ELSE <<0>>

\* flooded_ha = area.get('VV', 0) / 10000
FloodedHa(info) == Divide(Number1(AreaGet(info)[1]), 10000)

\* The reduction raises, or the division is applied to a null entry.
StatsAbort(info) == info.raises \/ AreaGet(info) = <<>>

\* try: flood_final.getDownloadURL(...); link_button(...) except: pass
DownloadNotices(ok) == IF ok THEN {"download_link"} ELSE {}

\* context = f"Event: {selected_event_name} ({selected_year}). Flooded Area: {flooded_ha} ha. User: {prompt}"
Context(event, year, ha, prompt) ==
  [event |-> event, year |-> year, flooded_ha |-> ha, prompt |-> prompt]

\* Variant of ChatRequest: the stored transcript (which ends with the new user
\* turn) is sent after the system message.
ChatRequest_with_history(msgs, event, year, ha, prompt) ==
  <<[role |-> "system", content |-> Context(event, year, ha, prompt)]>> \o msgs

\* messages=[{"role": "system", "content": context}, {"role": "user", "content": prompt}]
\* (msgs, the transcript at the time of the call, is not used)
ChatRequest(msgs, event, year, ha, prompt) ==
  <<[role |-> "system", content |-> Context(event, year, ha, prompt)],
    [role |-> "user", content |-> prompt]>>

\* Variant of ChatAppend: a failed call stores the error as an assistant turn.
ChatAppend_error_turn(msgs, prompt, chat) ==
  Append(Append(msgs, [role |-> "user", content |-> prompt]),
         [role |-> "assistant", content |-> chat.text])

\* st.session_state.messages.append({"role": "user", ...}); on a reply,
\* st.session_state.messages.append({"role": "assistant", ...})
ChatAppend(msgs, prompt, chat) ==
  LET with_user == Append(msgs, [role |-> "user", content |-> prompt])
  IN  IF chat.kind = "reply"
      THEN Append(with_user, [role |-> "assistant", content |-> chat.text])
      ELSE with_user

\* except Exception as e: st.error(f"AI Error: {e}")
ChatNotices(chat) == IF chat.kind = "reply" THEN {} ELSE {"ai_error"}

\* What the remote services answer during one execution of the script.  A call
\* that the execution does not reach has one fixed (unused) outcome.
Outcomes(active, sensor, fdep, prompt) ==
  LET radar == active /\ sensor = SensorChoices[1]
  IN  UNION {
        {[fdep_ok |-> f, info |-> i, download_ok |-> d, chat |-> c] :
           f \in IF active /\ fdep THEN BOOLEAN ELSE {TRUE},
           d \in IF radar /\ ~StatsAbort(i) THEN BOOLEAN ELSE {TRUE},
           c \in IF active /\ ~(radar /\ StatsAbort(i)) /\ prompt # <<>>
                  THEN ChatOutcomes ELSE {NoChat}} :
        i \in IF radar THEN GetInfoOutcomes ELSE {NoInfo}}

(***************************************************************************)
(* One execution of the script with widget values w, the button pressed    *)
(* or not, an optional chat prompt and the remote outcomes e.  The result  *)
(* is the new session state and what the execution did.                    *)
(***************************************************************************)
Run(w, pressed, prompt, e) ==
  LET params  == Params(w.year, w.event)
      active  == Latch(analysis_active, pressed)
      radar   == w.sensor = SensorChoices[1]
      aborted == radar /\ StatsAbort(e.info)
      ha      == IF radar /\ ~aborted THEN FloodedHa(e.info) ELSE Number1(0)
      chatted == ~aborted /\ prompt # <<>>
      fdep_failed  == IF w.fdep /\ ~e.fdep_ok THEN {"fdep"} ELSE {}
      stats_failed == IF radar /\ e.info.raises THEN {"getInfo"} ELSE {}
      dl_failed    == IF radar /\ ~aborted /\ ~e.download_ok THEN {"download"} ELSE {}
      chat_failed  == IF chatted /\ e.chat.kind = "error" THEN {"chat"} ELSE {}
      shown ==
        {"subheader"} \cup FdepNotices(w.fdep, e.fdep_ok)
        \cup (IF aborted THEN {"uncaught_exception"} ELSE {"map", "chat_input"})
        \cup (IF radar /\ ~aborted
              THEN DownloadNotices(e.download_ok) \cup {"success"} ELSE {})
        \cup (IF chatted THEN ChatNotices(e.chat) ELSE {})
  IN  IF ~DashboardRuns(active)
      THEN [active |-> active, messages |-> messages,
            lat |-> params.lat, lon |-> params.lon,
            roi |-> <<>>, filter_dates |-> <<>>, detect |-> <<>>,
            sat_calls |-> <<>>, area |-> <<>>, flooded_ha |-> <<>>,
            ui |-> {}, run_end |-> "inactive", failed |-> {}, request |-> <<>>]
      ELSE [active |-> active,
            messages |-> IF chatted THEN ChatAppend(messages, prompt[1], e.chat)
                         ELSE messages,
            lat |-> params.lat, lon |-> params.lon,
            roi |-> <<Roi(params.lon, params.lat)>>,
            filter_dates |-> FilterDates(w.dates[1], w.dates[2], w.dates[3], w.dates[4]),
            detect |-> IF radar THEN <<DetectFlood>> ELSE <<>>,
            sat_calls |-> SatelliteCalls(radar, aborted),
            area |-> IF radar /\ ~e.info.raises THEN <<e.info>> ELSE <<>>,
            flooded_ha |-> <<ha>>,
            ui |-> shown,
            run_end |-> IF aborted THEN "aborted" ELSE "completed",
            failed |-> fdep_failed \cup stats_failed \cup dl_failed \cup chat_failed,
            request |-> IF chatted
                        THEN ChatRequest(
                               Append(messages, [role |-> "user", content |-> prompt[1]]),
                               w.event, w.year, ha, prompt[1])
                        ELSE <<>>]

(* ------------------------------ actions ------------------------------- *)

NoPrompt == <<>>

CurrentDates == <<before_start, before_end, after_start, after_end>>

\* The widget values of an execution in which year and event are selected and
\* every other widget is left as it is.
Widgets(year, event) ==
  LET old == DefaultDates(selected_year, selected_event_name)
      new == DefaultDates(year, event)
  IN  [year       |-> year,
       event      |-> event,
       loc        |-> WidgetValue(event, selected_event_name, location_query),
       dates      |-> [i \in 1..4 |-> WidgetValue(new[i], old[i], CurrentDates[i])],
       overridden |-> {i \in overridden : new[i] = old[i]},
       sensor     |-> sensor_type,
       fdep       |-> show_fdep]

\* The user's interaction leaves the widget values w; the script then runs once.
Rerun(w, pressed, prompt, cause) ==
  \E e \in Outcomes(Latch(analysis_active, pressed), w.sensor, w.fdep, prompt) :
    \E r \in {Run(w, pressed, prompt, e)} :
        /\ selected_year' = w.year
        /\ selected_event_name' = w.event
        /\ location_query' = w.loc
        /\ before_start' = w.dates[1]
        /\ before_end' = w.dates[2]
        /\ after_start' = w.dates[3]
        /\ after_end' = w.dates[4]
        /\ overridden' = w.overridden
        /\ sensor_type' = w.sensor
        /\ show_fdep' = w.fdep
        /\ analysis_active' = r.active
        /\ messages' = r.messages
        /\ trigger' = cause
        /\ lat' = r.lat
        /\ lon' = r.lon
        /\ roi' = r.roi
        /\ filter_dates' = r.filter_dates
        /\ detect' = r.detect
        /\ sat_calls' = r.sat_calls
        /\ area' = r.area
        /\ flooded_ha' = r.flooded_ha
        /\ ui' = r.ui
        /\ run_end' = r.run_end
        /\ failed' = r.failed
        /\ request' = r.request

\* The widget values of an execution in which no widget changed.
Same ==
  [year       |-> selected_year,
   event      |-> selected_event_name,
   loc        |-> location_query,
   dates      |-> [i \in 1..4 |-> CurrentDates[i]],
   overridden |-> overridden,
   sensor     |-> sensor_type,
   fdep       |-> show_fdep]

\* selected_year = st.sidebar.selectbox("Select Year", ...)
SelectYear ==
  \E i \in 1..Len(year_list) :
    /\ year_list[i] # selected_year
    /\ \E w \in {Widgets(year_list[i],
                         EventSelectbox(year_list[i], selected_year, selected_event_name))} :
         Rerun(w, FALSE, NoPrompt, "widget")

\* selected_event_name = st.sidebar.selectbox("Select Major Event", event_list)
SelectEvent ==
  \E i \in 1..Len(event_list(selected_year)) :
    /\ event_list(selected_year)[i] # selected_event_name
    /\ \E w \in {Widgets(selected_year, event_list(selected_year)[i])} :
         Rerun(w, FALSE, NoPrompt, "widget")

\* location_query = st.text_input("Location Name", selected_event_name)
EditLocation ==
  \E text \in CustomLocations \cup {selected_event_name} :
    /\ text # location_query
    /\ \E w \in {[Same EXCEPT !.loc = text]} :
         Rerun(w, FALSE, NoPrompt, "widget")

\* col1.date_input("Before Start", d[0]) ... col2.date_input("After End", d[3])
EditDate ==
  \E i \in 1..4, date \in CustomDates :
    /\ date # CurrentDates[i]
    /\ Cardinality(overridden \cup {i}) <= MaxOverrides
    /\ \E w \in {[Same EXCEPT !.dates[i] = date, !.overridden = @ \cup {i}]} :
         Rerun(w, FALSE, NoPrompt, "widget")

\* sensor_type = st.sidebar.radio("Select Satellite", [...])
SelectSensor ==
  \E i \in 1..Len(SensorChoices) :
    /\ SensorChoices[i] # sensor_type
    /\ \E w \in {[Same EXCEPT !.sensor = SensorChoices[i]]} :
         Rerun(w, FALSE, NoPrompt, "widget")

\* show_fdep = st.sidebar.checkbox("Overlay FDEP Conservation Lands", value=False)
ToggleFdep ==
  \E w \in {[Same EXCEPT !.fdep = ~show_fdep]} :
    Rerun(w, FALSE, NoPrompt, "widget")

\* if st.sidebar.button("Run Analysis", type="primary"):
PressRunAnalysis ==
  \E w \in {Same} :
    Rerun(w, TRUE, NoPrompt, "button")

\* if prompt := st.chat_input("Ask about this event..."):
\* the input exists only if the previous execution reached it
SubmitPrompt ==
  \E p \in Prompts :
    /\ "chat_input" \in ui
    /\ Len(messages) < MaxTranscript
    /\ \E w \in {Same} :
         Rerun(w, FALSE, <<p>>, "chat")

Init ==
  LET year  == year_list[1]
      event == event_list(year)[1]
      d     == DefaultDates(year, event)
  IN  /\ selected_year = year
      /\ selected_event_name = event
      /\ location_query = event
      /\ before_start = d[1]
      /\ before_end = d[2]
      /\ after_start = d[3]
      /\ after_end = d[4]
      /\ overridden = {}
      /\ sensor_type = SensorChoices[1]
      /\ show_fdep = FALSE
      /\ analysis_active = FALSE
      /\ messages = <<>>
      /\ trigger = "load"
      /\ lat = Params(year, event).lat
      /\ lon = Params(year, event).lon
      /\ roi = <<>>
      /\ filter_dates = <<>>
      /\ detect = <<>>
      /\ sat_calls = <<>>
      /\ area = <<>>
      /\ flooded_ha = <<>>
      /\ ui = {}
      /\ run_end = "inactive"
      /\ failed = {}
      /\ request = <<>>

Next ==
  \/ SelectYear
  \/ SelectEvent
  \/ EditLocation
  \/ EditDate
  \/ SelectSensor
  \/ ToggleFdep
  \/ PressRunAnalysis
  \/ SubmitPrompt

\* Every interaction the dashboard offers.
Spec == Init /\ [][Next]_vars

\* The event catalogue and the Advanced Settings: the user picks years and
\* events, edits the location and the dates, switches the sensor and runs the
\* analysis.
NextCatalog ==
  \/ SelectYear
  \/ SelectEvent
  \/ EditLocation
  \/ EditDate
  \/ SelectSensor
  \/ PressRunAnalysis

SpecCatalog == Init /\ [][NextCatalog]_vars

\* The analysis and the chat: the user picks an event of the selected year,
\* switches the sensor and the overlay, runs the analysis and submits prompts.
NextSession ==
  \/ SelectEvent
  \/ SelectSensor
  \/ ToggleFdep
  \/ PressRunAnalysis
  \/ SubmitPrompt

SpecSession == Init /\ [][NextSession]_vars

(* ------------------------------ properties ---------------------------- *)

Radar == SensorChoices[1]

Optical == SensorChoices[2]

\* C1: for every year and event of flood_archive, when that year and event are
\* selected and no date widget holds a user-entered date, lat and lon are the
\* entry's, the four date inputs are the entry's dates[0..3] in that order, and
\* an analysis sends the entry's point as the ROI and the entry's four date
\* strings, unchanged, as the filterDate arguments.
C1_EventPopulatesInputs ==
  \A i \in 1..Len(flood_archive) :
    \A j \in 1..Len(flood_archive[i].events) :
      LET entry == flood_archive[i].events[j]
      IN  ( /\ selected_year = flood_archive[i].year
            /\ selected_event_name = entry.name
            /\ overridden = {} )
          => /\ lat = entry.lat
             /\ lon = entry.lon
             /\ before_start = to_date(entry.dates[1])
             /\ before_end = to_date(entry.dates[2])
             /\ after_start = to_date(entry.dates[3])
             /\ after_end = to_date(entry.dates[4])
             /\ run_end # "inactive" =>
                  /\ roi = <<[lon |-> entry.lon, lat |-> entry.lat, buffer |-> 20000]>>
                  /\ filter_dates = entry.dates

\* An analysis of Hurricane Ian, selected through both dropdowns, with the
\* configured dates.
C1_Witness ==
  /\ selected_year = "2022"
  /\ selected_event_name = "Hurricane Ian (Florida)"
  /\ overridden = {}
  /\ run_end = "completed"
  /\ roi = <<[lon |-> -8187, lat |-> 2664, buffer |-> 20000]>>
  /\ filter_dates[1] = <<"2", "0", "2", "2", "-", "0", "9", "-", "0", "1">>
  /\ filter_dates[4] = <<"2", "0", "2", "2", "-", "1", "0", "-", "0", "5">>

\* C2: with the configured dates (no date widget edited) the before window
\* precedes the after window and neither is empty or reversed: start < end in
\* both, and the before end < the after start, in the widgets and in the four
\* dates an analysis sends.
C2_BeforePrecedesAfter ==
  overridden = {} =>
    /\ DateBefore(before_start, before_end)
    /\ DateBefore(before_end, after_start)
    /\ DateBefore(after_start, after_end)
    /\ run_end # "inactive" =>
         LET sent == [k \in 1..4 |-> to_date(filter_dates[k])]
         IN  /\ DateBefore(sent[1], sent[2])
             /\ DateBefore(sent[2], sent[3])
             /\ DateBefore(sent[3], sent[4])

\* An analysis of a 2020 event with the configured dates, by the button.
C2_Witness ==
  /\ selected_year = "2020"
  /\ overridden = {}
  /\ trigger = "button"
  /\ run_end = "completed"
  /\ Len(filter_dates) = 4

C3_Step ==
  LET n == Len(messages)
  IN  /\ Len(messages') >= n
      /\ SubSeq(messages', 1, n) = messages
      /\ messages' # messages =>
           /\ trigger' = "chat"
           /\ request' # <<>>
           /\ messages'[n + 1] = [role |-> "user", content |-> request'[2].content]
           /\ IF "ai_error" \in ui'
              THEN Len(messages') = n + 1
              ELSE Len(messages') = n + 2 /\ messages'[n + 2].role = "assistant"

\* C3: the transcript only grows at its end: every step keeps the stored turns
\* as a prefix, a submission appends the user turn of the submitted prompt and,
\* only when the chat call returned a reply, the assistant turn right after it;
\* a failed call appends the user turn alone.  So every assistant turn directly
\* follows a user turn.
C3_TranscriptOrdered ==
  /\ [][C3_Step]_vars
  /\ [](\A i \in 1..Len(messages) :
          messages[i].role = "assistant" => i > 1 /\ messages[i - 1].role = "user")

\* A failed submission followed by an answered one.
C3_Witness ==
  /\ Len(messages) = 3
  /\ messages[1].role = "user"
  /\ messages[2].role = "user"
  /\ messages[3].role = "assistant"

\* The message the user sees for a failed remote call.
NoticeFor(call) ==
  CASE call = "fdep" -> "fdep_warning"
    [] call = "getInfo" -> "stats_error"
    [] call = "download" -> "download_error"
    [] call = "chat" -> "ai_error"

\* C4: every remote call that fails during an analysis is surfaced as a warning
\* or error message, and the execution runs to its end.
C4_FailuresSurfaced ==
  run_end # "inactive" =>
    /\ run_end = "completed"
    /\ \A call \in failed : NoticeFor(call) \in ui

\* What a geocoding service answers for a location name: the event titles are
\* not place names.
Geocode(name) ==
  IF name = "Miami" THEN <<[lat |-> 2576, lon |-> -8019]>> ELSE <<>>

\* C5: an analysis is centred on the geocoded coordinates of the Location Name
\* when the lookup succeeds, and on the default coordinates when it does not.
C5_GeocodedCentre ==
  run_end # "inactive" =>
    LET found == Geocode(location_query)
    IN  IF found = <<>>
        THEN roi = <<Roi(lon, lat)>>
        ELSE roi = <<Roi(found[1].lon, found[1].lat)>>

\* C6 as stated: a button press issues a satellite call sequence, and a widget
\* change or a chat submission issues none.
C6_OnlyButtonIssuesCalls ==
  /\ trigger = "button" => sat_calls # <<>>
  /\ trigger \in {"widget", "chat"} => sat_calls = <<>>

\* C6, amended: an execution issues a satellite call sequence, and exactly one
\* (no request twice), if and only if analysis_active is set; so a press of Run
\* Analysis issues one, and so does every later widget change and chat
\* submission, while an interaction before the first press issues none.
C6_ActiveRunIssuesOneSequence ==
  /\ trigger = "button" => sat_calls # <<>>
  /\ analysis_active <=> sat_calls # <<>>
  /\ \A a, b \in 1..Len(sat_calls) : sat_calls[a] = sat_calls[b] => a = b

\* A chat submission that re-issued the optical sequence.
C6_Witness ==
  /\ trigger = "chat"
  /\ sensor_type = Optical
  /\ sat_calls = OpticalLayers

\* C7: when the reduction returns no 'VV' entry the execution completes with
\* flooded_ha = 0; with the optical sensor flooded_ha is 0; flooded_ha is a
\* number whenever the map is shown and in every chat prompt.
C7_FloodedAreaFallsBackToZero ==
  /\ \A k \in 1..Len(area) :
       ~area[k].has_VV =>
         /\ run_end = "completed"
         /\ Len(flooded_ha) = 1
         /\ flooded_ha[1].num = 0
  /\ (run_end # "inactive" /\ sensor_type = Optical) =>
       Len(flooded_ha) = 1 /\ flooded_ha[1].num = 0
  /\ "map" \in ui => Len(flooded_ha) = 1 /\ flooded_ha[1].den > 0
  /\ request # <<>> =>
       /\ Len(flooded_ha) = 1
       /\ request[1].content.flooded_ha = flooded_ha[1]
       /\ flooded_ha[1].den > 0

\* A chat submission in an execution whose reduction returned no 'VV' entry.
C7_Witness ==
  /\ sensor_type = Radar
  /\ area # <<>>
  /\ ~area[1].has_VV
  /\ "map" \in ui
  /\ request # <<>>
  /\ flooded_ha[1].num = 0

\* C8: the radar expression smooths both composites with a focal mean of
\* radius 50 metres, flags a pixel when after/before is below 0.8 and masks at
\* -15 dB on the before composite.
C8_DocumentedConstants ==
  \A k \in 1..Len(detect) :
    /\ detect[k].numerator.image = "after"
    /\ detect[k].numerator.radius = 50
    /\ detect[k].numerator.units = "meters"
    /\ detect[k].denominator.image = "before"
    /\ detect[k].denominator.radius = 50
    /\ detect[k].denominator.units = "meters"
    /\ detect[k].lt = [num |-> 8, den |-> 10]
    /\ detect[k].mask_image = "before"
    /\ detect[k].mask_gt = -15

\* C9: a chat request is exactly two messages: the system message built from
\* the selected event and year, the execution's flooded_ha and the submitted
\* prompt, and the user message with the submitted prompt, which is the user
\* turn the submission appended; no stored turn is sent.
C9_StatelessRequest ==
  request # <<>> =>
    /\ trigger = "chat"
    /\ Len(request) = 2
    /\ request[2].role = "user"
    /\ request[2].content \in Prompts
    /\ request[1] =
         [role |-> "system",
          content |-> [event |-> selected_event_name, year |-> selected_year,
                       flooded_ha |-> flooded_ha[1],
                       prompt |-> request[2].content]]
    /\ LET k == IF "ai_error" \in ui THEN Len(messages) ELSE Len(messages) - 1
       IN  messages[k] = request[2]

\* A request for a second prompt, with the first exchange in the transcript.
C9_Witness ==
  /\ request # <<>>
  /\ Len(messages) = 4
  /\ messages[1].content # request[2].content

C10_Step ==
  /\ analysis_active => analysis_active'
  /\ (~analysis_active /\ analysis_active') => trigger' = "button"
  /\ messages' # messages => analysis_active'

\* C10: analysis_active is False at session start, is set only by a press of
\* Run Analysis and is never reset; the dashboard, the map, the chat section
\* and every append to the transcript occur only while it is set.
C10_OneWayLatch ==
  /\ ~analysis_active
  /\ [][C10_Step]_vars
  /\ []((ui # {} \/ sat_calls # <<>> \/ messages # <<>>) => analysis_active)

\* The dashboard shown again after a later widget change.
C10_Witness ==
  /\ analysis_active
  /\ trigger = "widget"
  /\ "map" \in ui
  /\ "chat_input" \in ui

====
